---- MODULE Spec2Model ----
(***************************************************************************)
(* Model of the DIDComm demo server: the packet-event broadcast bus        *)
(* (packet_logger.rs), the two flows (flows/send_message.rs,               *)
(* flows/trust_ping.rs) and the HTTP/SSE handlers (api.rs).                *)
(*                                                                         *)
(* Option<T> is modelled as a sequence: None == <<>>, Some(x) == <<x>>.    *)
(* Uuid::new_v4() is modelled as the pair <<drawer, n>>: the n-th value     *)
(* drawn by one trigger invocation (drawer 0 is reset_demo).               *)
(***************************************************************************)
EXTENDS Integers, Sequences, FiniteSets, TLC

\* ------------------------------------------------------------------ bounds
MaxFlows == 1          \* Spec: trigger_send / trigger_ping invocations
MaxSubs == 1           \* Spec: SSE observers that connect
MaxResets == 1         \* Spec: reset triggers
ConcFlows == 2         \* SpecConc: flow invocations that run concurrently
ConcSubs == 1          \* SpecConc: SSE observers that connect
BusSubs == 2           \* SpecBus: SSE observers that connect
FullFlows == 1         \* SpecFull: flow invocations
FullSubs == 2          \* SpecFull: SSE observers that connect
FullPolls == 2         \* SpecFull: stream items each observer takes
PairFlows == 2         \* SpecPair: flow invocations
AliasFlows == 2        \* SpecAlias: flow invocations (odd: ping, even: send)
SubscribeWindow == 1   \* SpecBus: observers connect in the first publishes
MaxPolls == 2          \* SpecBus: stream items each observer takes
Overrun == 2           \* SpecBus: records published beyond the capacity

\* ------------------------------------------------------- program constants
Capacity == 256        \* broadcast::channel::<PacketEvent>(256)

None == <<>>
Some(x) == <<x>>

\* Uuid::new_v4(): the n-th value drawn by invocation drawer
new_v4(drawer, n) == <<drawer, n>>

\* ------------------------------------------------------------ PacketStep
PacketStep ==
    {"PlaintextMessage", "SignedEnvelope", "EncryptedPayload",
     "EncryptedForward", "MediatorSend", "MediatorAck", "TrustPing",
     "TrustPong", "MessagePickup", "MessageDelivery"}

\* PacketStep::label; the circled digits of the source are written (n)
label(step) ==
    CASE step = "PlaintextMessage" -> "(1) Plaintext Message"
      [] step = "SignedEnvelope"   -> "(2) Signed Envelope"
      [] step = "EncryptedPayload" -> "(3) Encrypted Payload"
      [] step = "EncryptedForward" -> "(4) Forward Envelope"
      [] step = "MediatorSend"     -> "(5) Mediator Send"
      [] step = "MediatorAck"      -> "(5) Mediator ACK"
      [] step = "TrustPing"        -> "(1) Trust Ping"
      [] step = "TrustPong"        -> "(2) Trust Pong"
      [] step = "MessagePickup"    -> "(6) Message Pickup"
      [] step = "MessageDelivery"  -> "(6) Message Delivery"

\* PacketStep::color
color(step) ==
    CASE step = "PlaintextMessage" -> "blue"
      [] step = "SignedEnvelope"   -> "yellow"
      [] step \in {"EncryptedPayload", "EncryptedForward"} -> "red"
      [] step = "MediatorSend"     -> "orange"
      [] step = "MediatorAck"      -> "green"
      [] step \in {"TrustPing", "TrustPong"} -> "purple"
      [] step \in {"MessagePickup", "MessageDelivery"} -> "green"

\* PacketEvent::new; id is the fresh uuid the caller passes in.  The
\* timestamp (Utc::now) is not modelled.
\* (mutant: the caller's endpoints decide the label of a system record)
PacketEvent_new_system_label(id, direction, from, to, step, raw_json, correlation_id) ==
    [id |-> id, direction |-> direction, from |-> from, to |-> to,
     from_alias |-> None, to_alias |-> None,
     step |-> step,
     label |-> IF from = "system" THEN "Reset" ELSE label(step),
     color |-> color(step),
     raw_json |-> raw_json, correlation_id |-> correlation_id]

\* (mutant: the records of inbound traffic are built without the
\* correlation id)
PacketEvent_new_inbound_uncorrelated(id, direction, from, to, step, raw_json, correlation_id) ==
    [id |-> id, direction |-> direction, from |-> from, to |-> to,
     from_alias |-> None, to_alias |-> None,
     step |-> step, label |-> label(step), color |-> color(step),
     raw_json |-> raw_json,
     correlation_id |-> IF direction = "Inbound" THEN None
                        ELSE correlation_id]

\* (mutant: the constructor attaches its endpoints as aliases, as
\* with_aliases would)
PacketEvent_new_with_aliases(id, direction, from, to, step, raw_json, correlation_id) ==
    [id |-> id, direction |-> direction, from |-> from, to |-> to,
     from_alias |-> Some(from), to_alias |-> Some(to),
     step |-> step, label |-> label(step), color |-> color(step),
     raw_json |-> raw_json, correlation_id |-> correlation_id]

PacketEvent_new(id, direction, from, to, step, raw_json, correlation_id) ==
    [id |-> id, direction |-> direction, from |-> from, to |-> to,
     from_alias |-> None, to_alias |-> None,
     step |-> step, label |-> label(step), color |-> color(step),
     raw_json |-> raw_json, correlation_id |-> correlation_id]

\* #[serde(rename_all = "snake_case")] on PacketStep
step_snake_case(step) ==
    CASE step = "PlaintextMessage" -> "plaintext_message"
      [] step = "SignedEnvelope"   -> "signed_envelope"
      [] step = "EncryptedPayload" -> "encrypted_payload"
      [] step = "EncryptedForward" -> "encrypted_forward"
      [] step = "MediatorSend"     -> "mediator_send"
      [] step = "MediatorAck"      -> "mediator_ack"
      [] step = "TrustPing"        -> "trust_ping"
      [] step = "TrustPong"        -> "trust_pong"
      [] step = "MessagePickup"    -> "message_pickup"
      [] step = "MessageDelivery"  -> "message_delivery"

\* #[serde(rename_all = "snake_case")] on PacketDirection
direction_snake_case(d) == IF d = "Outbound" THEN "outbound" ELSE "inbound"

\* serde_json::to_string(&event): from_alias / to_alias are skipped when
\* None, correlation_id None serialises as null
\* (written None here too).
to_string(e) ==
    LET base == [id |-> e.id,
                 direction |-> direction_snake_case(e.direction),
                 from |-> e.from, to |-> e.to,
                 step |-> step_snake_case(e.step),
                 label |-> e.label, color |-> e.color,
                 raw_json |-> e.raw_json,
                 correlation_id |->
                     IF e.correlation_id = None THEN None
                     ELSE e.correlation_id[1]]
    IN  IF e.from_alias = None /\ e.to_alias = None
        THEN base
        ELSE [k \in DOMAIN base \cup {"from_alias", "to_alias"} |->
                 IF k = "from_alias" THEN e.from_alias
                 ELSE IF k = "to_alias" THEN e.to_alias
                 ELSE base[k]]

\* ------------------------------------------------------------------ state
VARIABLES
    bus,        \* packet_tx: [tail, buf, rx_cnt] of the broadcast channel
    rx,         \* per observer: the receiver of its packet_stream
    out,        \* per observer: the SSE items its stream has yielded
    published,  \* history: every record handed to packet_tx.send, in order
    resets,     \* number of reset_demo calls made
    flow        \* per trigger invocation: the handler's and flow's locals

vars == <<bus, rx, out, published, resets, flow>>

\* the trigger invocations and the observers of the run
Flows == DOMAIN flow
Subs == DOMAIN rx

\* create_packet_channel: capacity 256, the initial receiver is dropped
create_packet_channel == [tail |-> 0, buf |-> <<>>, rx_cnt |-> 0]

\* broadcast::Sender::send: Err(SendError) when there is no receiver (the
\* value is not stored); otherwise the value takes the slot at tail and
\* overwrites the value Capacity positions older.
\* (mutant: a full channel rejects the new value instead of dropping its
\* oldest)
send_drop_newest(b, evt) ==
    IF b.rx_cnt = 0 THEN b
    ELSE IF Len(b.buf) < Capacity
    THEN [b EXCEPT !.tail = b.tail + 1, !.buf = Append(b.buf, evt)]
    ELSE b

send(b, evt) ==
    IF b.rx_cnt = 0 THEN b
    ELSE [b EXCEPT !.tail = b.tail + 1,
                   !.buf = IF Len(b.buf) < Capacity
                           THEN Append(b.buf, evt)
                           ELSE Append(Tail(b.buf), evt)]

\* Result of send: Ok(rx_cnt) or Err
send_is_err(b) == b.rx_cnt = 0

\* position of the oldest value the channel still holds
oldest(b) == b.tail - Len(b.buf)

\* the value stored at absolute position p (oldest(b) <= p < b.tail)
\* (mutant: the buffer is indexed from its newest value)
slot_from_newest(b, p) == b.buf[Len(b.buf) - (p - oldest(b))]

slot(b, p) == b.buf[p - oldest(b) + 1]

\* broadcast::Receiver::recv outcome for a receiver whose cursor is next
recv_outcome(b, next) ==
    IF next = b.tail THEN "Empty"
    ELSE IF next < b.tail - Capacity THEN "Lagged"
    ELSE "Ok"

\* cursor after a Lagged outcome: the oldest value still held
\* (mutant: after a lag the receiver resumes at the newest position)
lagged_next_at_tail(b) == b.tail

lagged_next(b) == b.tail - Capacity

\* broadcast::Sender::subscribe: the cursor of a new receiver
\* (mutant: a new receiver starts at the oldest value still held, a replay)
subscribe_replay(b) == b.tail - Len(b.buf)

subscribe(b) == b.tail

\* ------------------------------------------------------------- AppState
\* alice_info.did, bob_info.did, alice_mediator_did, bob_mediator_did
alice_did == "did:alice"
bob_did == "did:bob"
alice_mediator_did == "did:mediator:alice"
bob_mediator_did == "did:mediator:bob"

\* request inputs
Aliases == {"alice", "bob", "Bob", "mediator", "carol"}
Bodies == {<<>>, <<" ">>, <<"h", "i">>}

\* str::to_lowercase on the aliases a request may carry
to_lowercase(a) ==
    CASE a = "Bob" -> "bob"
      [] OTHER -> a   \* the other aliases are lower case already

\* str::trim: strips leading and trailing whitespace
RECURSIVE trim_start(_)
trim_start(b) ==
    IF b # <<>> /\ Head(b) = " " THEN trim_start(Tail(b)) ELSE b

RECURSIVE trim_end(_)
trim_end(b) ==
    IF b # <<>> /\ b[Len(b)] = " " THEN trim_end(SubSeq(b, 1, Len(b) - 1))
    ELSE b

\* mutant: the body is tested without trimming
trim_untrimmed(b) == b

trim(b) == trim_end(trim_start(b))

\* Result<_, String>
Ok(v) == [ok |-> TRUE, val |-> v]
Err(e) == [ok |-> FALSE, err |-> e]

\* resolve_profiles of flows/send_message.rs:
\* (sender_did, recipient_did, recipient_mediator_did)
\* (mutant: an unknown recipient is taken to be bob)
resolve_profiles_default_bob(from, to) ==
    LET from_lower == to_lowercase(from)
        to_lower == to_lowercase(to)
    IN  IF from_lower \notin {"alice", "bob"}
        THEN Err(<<"Unknown sender", from>>)
        ELSE Ok([sender_did |-> IF from_lower = "alice" THEN alice_did
                                ELSE bob_did,
                 recipient_did |-> IF to_lower = "alice" THEN alice_did
                                   ELSE bob_did,
                 recipient_mediator_did |->
                     IF to_lower = "alice" THEN alice_mediator_did
                     ELSE bob_mediator_did])

resolve_profiles(from, to) ==
    LET from_lower == to_lowercase(from)
        to_lower == to_lowercase(to)
    IN  IF from_lower \notin {"alice", "bob"}
        THEN Err(<<"Unknown sender", from>>)
        ELSE IF to_lower \notin {"alice", "bob"}
        THEN Err(<<"Unknown recipient", to>>)
        ELSE Ok([sender_did |-> IF from_lower = "alice" THEN alice_did
                                ELSE bob_did,
                 recipient_did |-> IF to_lower = "alice" THEN alice_did
                                   ELSE bob_did,
                 recipient_mediator_did |->
                     IF to_lower = "alice" THEN alice_mediator_did
                     ELSE bob_mediator_did])

\* the profile resolution at the head of trust_ping:
\* (sender_did, target_did)
\* (mutant: a party may ping itself, as it may send itself a message)
resolve_ping_allows_self(from_alias, to_alias) ==
    LET from_lower == to_lowercase(from_alias)
        to_lower == to_lowercase(to_alias)
    IN  IF from_lower = "alice"
        THEN IF to_lower = "bob"
             THEN Ok([sender_did |-> alice_did, target_did |-> bob_did])
             ELSE IF to_lower = "alice"
             THEN Ok([sender_did |-> alice_did, target_did |-> alice_did])
             ELSE IF to_lower = "mediator"
             THEN Ok([sender_did |-> alice_did,
                      target_did |-> alice_mediator_did])
             ELSE Err(<<"Unknown ping target", to_alias>>)
        ELSE IF from_lower = "bob"
        THEN IF to_lower = "alice"
             THEN Ok([sender_did |-> bob_did, target_did |-> alice_did])
             ELSE IF to_lower = "bob"
             THEN Ok([sender_did |-> bob_did, target_did |-> bob_did])
             ELSE IF to_lower = "mediator"
             THEN Ok([sender_did |-> bob_did,
                      target_did |-> bob_mediator_did])
             ELSE Err(<<"Unknown ping target", to_alias>>)
        ELSE Err(<<"Unknown sender", from_alias>>)

resolve_ping(from_alias, to_alias) ==
    LET from_lower == to_lowercase(from_alias)
        to_lower == to_lowercase(to_alias)
    IN  IF from_lower = "alice"
        THEN IF to_lower = "bob"
             THEN Ok([sender_did |-> alice_did, target_did |-> bob_did])
             ELSE IF to_lower = "mediator"
             THEN Ok([sender_did |-> alice_did,
                      target_did |-> alice_mediator_did])
             ELSE Err(<<"Unknown ping target", to_alias>>)
        ELSE IF from_lower = "bob"
        THEN IF to_lower = "alice"
             THEN Ok([sender_did |-> bob_did, target_did |-> alice_did])
             ELSE IF to_lower = "mediator"
             THEN Ok([sender_did |-> bob_did,
                      target_did |-> bob_mediator_did])
             ELSE Err(<<"Unknown ping target", to_alias>>)
        ELSE Err(<<"Unknown sender", from_alias>>)

\* api_error(status, msg, step)
api_error(status, msg, step) ==
    [status |-> status, error |-> msg, step |-> step]

\* the 200 response of send_message / send_ping of api.rs
\* (mutant: the count leaves out the record published before the pickup)
ok_response_without_pickup(status_text, events) ==
    [status |-> 200,
     body |-> [status |-> status_text,
               events_count |-> Len(SelectSeq(events,
                                   LAMBDA e : e.step # "MessagePickup")),
               correlation_id |->
                   IF events = <<>> THEN None
                   ELSE events[1].correlation_id]]

ok_response(status_text, events) ==
    [status |-> 200,
     body |-> [status |-> status_text,
               events_count |-> Len(events),
               correlation_id |->
                   IF events = <<>> THEN None
                   ELSE events[1].correlation_id]]

\* a trigger that has not been made yet
Idle ==
    [pc |-> "idle", kind |-> "none", from |-> "", to |-> "", body |-> <<>>,
     correlation_id |-> None, msg_id |-> None,
     sender_did |-> "", recipient_did |-> "", recipient_mediator_did |-> "",
     events |-> <<>>, calls |-> <<>>, returns |-> <<>>, send_errs |-> 0, overruns |-> 0,
     uuids |-> 0, pickup |-> None,
     result |-> None, response |-> None]

\* an observer that has not connected; created (the number of records
\* published before it connected), start (its first cursor) and skipped (the
\* positions a lag moved its cursor over) are history
NoRx == [state |-> "none", next |-> 0, created |-> 0, start |-> 0,
         skipped |-> {}]

\* the state main() serves from: the channel of create_packet_channel, no
\* observer connected, no trigger made (nf invocations and ns observers are
\* still to come)
InitWith(nf, ns) ==
    /\ bus = create_packet_channel
    /\ rx = [s \in 1..ns |-> NoRx]
    /\ out = [s \in 1..ns |-> <<>>]
    /\ published = <<>>
    /\ resets = 0
    /\ flow = [f \in 1..nf |-> Idle]

Init == InitWith(MaxFlows, MaxSubs)

\* --------------------------------------------------------------- handlers
\* packet_stream: state.packet_tx.subscribe(); the receiver starts at tail
packet_stream(s) ==
    /\ rx[s].state = "none"
    /\ rx' = [rx EXCEPT ![s] = [state |-> "open", next |-> subscribe(bus),
                                created |-> Len(published),
                                start |-> subscribe(bus), skipped |-> {}]]
    /\ bus' = [bus EXCEPT !.rx_cnt = bus.rx_cnt + 1]
    /\ UNCHANGED <<out, published, resets, flow>>

\* one poll of the stream built in packet_stream: BroadcastStream yields
\* Ok(event), which filter_map turns into a "packet" item, or
\* Err(Lagged(n)), which filter_map maps to None (nothing is yielded and the
\* receiver's cursor has moved to the oldest value still held)
\* (mutant: the receivers share one cursor, a record one stream takes is
\* taken from every stream waiting at it)
stream_next_shared_cursor(s) ==
    /\ rx[s].state = "open"
    /\ recv_outcome(bus, rx[s].next) # "Empty"
    /\ IF recv_outcome(bus, rx[s].next) = "Ok"
       THEN /\ out' = [out EXCEPT ![s] = Append(out[s],
                      [event |-> "packet",
                       data |-> to_string(slot(bus, rx[s].next))])]
            /\ rx' = [t \in Subs |->
                         IF rx[t].state = "open" /\ rx[t].next = rx[s].next
                         THEN [rx[t] EXCEPT !.next = @ + 1]
                         ELSE rx[t]]
       ELSE /\ rx' = [rx EXCEPT ![s].next = lagged_next(bus),
                                ![s].skipped = rx[s].skipped \cup
                                    (rx[s].next .. lagged_next(bus) - 1)]
            /\ out' = out
    /\ UNCHANGED <<bus, published, resets, flow>>

stream_next(s) ==
    /\ rx[s].state = "open"
    /\ recv_outcome(bus, rx[s].next) # "Empty"
    /\ IF recv_outcome(bus, rx[s].next) = "Ok"
       THEN /\ out' = [out EXCEPT ![s] = Append(out[s],
                      [event |-> "packet",
                       data |-> to_string(slot(bus, rx[s].next))])]
            /\ rx' = [rx EXCEPT ![s].next = rx[s].next + 1]
       ELSE /\ rx' = [rx EXCEPT ![s].next = lagged_next(bus),
                                ![s].skipped = rx[s].skipped \cup
                                    (rx[s].next .. lagged_next(bus) - 1)]
            /\ out' = out
    /\ UNCHANGED <<bus, published, resets, flow>>

\* the observer disconnects: the Sse stream and its receiver are dropped
\* (what the observer had been sent is no longer part of the state)
\* (mutant: the observer's disconnect closes the channel for every
\* receiver)
disconnect_closes_channel(s) ==
    /\ rx[s].state = "open"
    /\ rx' = [rx EXCEPT ![s] = [NoRx EXCEPT !.state = "closed"]]
    /\ out' = [out EXCEPT ![s] = <<>>]
    /\ bus' = [bus EXCEPT !.rx_cnt = 0]
    /\ UNCHANGED <<published, resets, flow>>

disconnect(s) ==
    /\ rx[s].state = "open"
    /\ rx' = [rx EXCEPT ![s] = [NoRx EXCEPT !.state = "closed"]]
    /\ out' = [out EXCEPT ![s] = <<>>]
    /\ bus' = [bus EXCEPT !.rx_cnt = bus.rx_cnt - 1]
    /\ UNCHANGED <<published, resets, flow>>

\* reset_demo
\* (mutant: the reset record is given a correlation id of its own)
reset_evt_correlated(id) ==
    PacketEvent_new(id, "Outbound", "system", "all", "PlaintextMessage",
                    [action |-> "reset"], Some(id))

reset_evt(id) ==
    PacketEvent_new(id, "Outbound", "system", "all", "PlaintextMessage",
                    [action |-> "reset"], None)

reset_demo ==
    /\ LET evt == reset_evt(new_v4(0, resets + 1))
       IN  /\ bus' = send(bus, evt)
           /\ published' = Append(published, evt)
    /\ resets' = resets + 1
    /\ UNCHANGED <<rx, out, flow>>

\* ---------------------------------------------------------------- flows
\* `let _ = state.packet_tx.send(evt.clone()); events.push(evt);`
\* the Result of send is discarded, the flow goes on whatever it was
\* (history) the send finds a receiver that holds Capacity unconsumed
\* values, so the value it stores overwrites one that receiver never took
overrun(b) ==
    \E s \in Subs : /\ rx[s].state = "open"
                    /\ b.tail - rx[s].next >= Capacity

\* (mutant: a record is kept only when send returned Ok)
pushed_if_sent(fl, evt) ==
    [fl EXCEPT !.events = IF send_is_err(bus) THEN @ ELSE Append(@, evt),
               !.uuids = @ + 1,
               !.send_errs = @ + (IF send_is_err(bus) THEN 1 ELSE 0),
               !.overruns = @ + (IF overrun(bus) THEN 1 ELSE 0)]

pushed(fl, evt) ==
    [fl EXCEPT !.events = Append(@, evt), !.uuids = @ + 1,
               !.send_errs = @ + (IF send_is_err(bus) THEN 1 ELSE 0),
               !.overruns = @ + (IF overrun(bus) THEN 1 ELSE 0)]

\* the collaborator call the flow makes next (it then awaits its return)
calling(fl, op, pc) ==
    [fl EXCEPT !.calls = Append(@, op), !.pc = pc]

\* the arguments of message_pickup().live_stream_get(profile, msg_id,
\* wait, auto_delete): the wait for one message id on one profile's live
\* stream, wait seconds at most; the profile is named by its DID
live_stream_get(fl, profile, msg_id, wait, auto_delete) ==
    [fl EXCEPT !.pickup = Some([profile |-> profile, msg_id |-> Some(msg_id),
                                wait |-> wait, auto_delete |-> auto_delete])]

\* the collaborator call the flow awaited returned r (history)
returned(fl, r) == [fl EXCEPT !.returns = Append(@, r)]

\* the flow returned Err(e): the handler answers 500 with its own step name
failed(fl, e, step) ==
    [fl EXCEPT !.pc = "done", !.result = Some(Err(e)),
               !.response = Some(api_error(500, e, Some(step)))]

\* the flow returned Ok(events): the handler answers 200
\* (mutant: the status of the response is taken from the terminal record)
succeeded_reports_outcome(fl, status_text) ==
    LET last == fl.events[Len(fl.events)].raw_json
        text == IF "status" \in DOMAIN last THEN last.status
                ELSE IF "error" \in DOMAIN last THEN "error"
                ELSE status_text
    IN  [fl EXCEPT !.pc = "done", !.result = Some(Ok(fl.events)),
                   !.response = Some(ok_response(text, fl.events))]

succeeded(fl, status_text) ==
    [fl EXCEPT !.pc = "done", !.result = Some(Ok(fl.events)),
               !.response = Some(ok_response(status_text, fl.events))]

\* `let _ = state.packet_tx.send(evt.clone());`
\* (mutant: a record whose send returned Err is handed to the bus again)
publish_resend_on_err(evt) ==
    /\ bus' = send(bus, evt)
    /\ published' = IF send_is_err(bus)
                    THEN Append(Append(published, evt), evt)
                    ELSE Append(published, evt)

publish(evt) ==
    /\ bus' = send(bus, evt)
    /\ published' = Append(published, evt)

\* POST /api/messages/send: api::send_message, then the flow up to its first
\* await (pack_encrypted)
api_send_message(f, from, to, body) ==
    /\ flow[f].pc = "idle"
    /\ LET req == [Idle EXCEPT !.kind = "send", !.from = from, !.to = to,
                               !.body = body]
       IN
       IF trim(body) = <<>>
       THEN /\ flow' = [flow EXCEPT ![f] =
                  [req EXCEPT !.pc = "done",
                              !.response = Some(api_error(400,
                                  "body cannot be empty", None))]]
            /\ UNCHANGED <<bus, published>>
       ELSE LET correlation_id == new_v4(f, 1)
                r == resolve_profiles(from, to)
            IN
            IF ~r.ok
            THEN /\ flow' = [flow EXCEPT ![f] =
                       failed([req EXCEPT !.correlation_id = Some(correlation_id),
                                   !.uuids = 1],
                              r.err, "send_message")]
                 /\ UNCHANGED <<bus, published>>
            ELSE LET msg_id == new_v4(f, 2)
                     plaintext_json ==
                         [id |-> msg_id,
                          type |-> "https://didcomm.org/basicmessage/2.0/message",
                          body |-> [content |-> body],
                          from |-> r.val.sender_did,
                          to |-> <<r.val.recipient_did>>]
                     evt == PacketEvent_new(new_v4(f, 3), "Outbound",
                                r.val.sender_did, r.val.recipient_did,
                                "PlaintextMessage", plaintext_json,
                                Some(correlation_id))
                     fl == [req EXCEPT
                              !.correlation_id = Some(correlation_id),
                              !.msg_id = msg_id, !.uuids = 2,
                              !.sender_did = r.val.sender_did,
                              !.recipient_did = r.val.recipient_did,
                              !.recipient_mediator_did =
                                  r.val.recipient_mediator_did]
                 IN  /\ publish(evt)
                     /\ flow' = [flow EXCEPT ![f] =
                            calling(pushed(fl, evt), "pack_encrypted", "pack")]
    /\ UNCHANGED <<rx, out, resets>>

\* Step 2: pack_encrypted returned
\* (mutant: a failed pack_encrypted is tried once more before the flow
\* gives up)
send_message_pack_retries_once(f, ok) ==
    /\ flow[f].pc = "pack"
    /\ IF ok
       THEN LET fl == returned(flow[f], "Ok")
                evt == PacketEvent_new(new_v4(f, fl.uuids + 1), "Outbound",
                           fl.sender_did, fl.recipient_did,
                           "EncryptedPayload", [packed |-> fl.msg_id],
                           fl.correlation_id)
            IN  /\ publish(evt)
                /\ flow' = [flow EXCEPT ![f] =
                       calling(pushed(fl, evt), "forward_message", "forward")]
       ELSE /\ flow' = [flow EXCEPT ![f] =
                  IF Len(@.calls) < 2
                  THEN calling(returned(@, "Err"), "pack_encrypted", "pack")
                  ELSE failed(returned(@, "Err"),
                              <<"pack_encrypted failed", "e">>,
                              "send_message")]
            /\ UNCHANGED <<bus, published>>
    /\ UNCHANGED <<rx, out, resets>>

send_message_pack(f, ok) ==
    /\ flow[f].pc = "pack"
    /\ IF ok
       THEN LET fl == returned(flow[f], "Ok")
                evt == PacketEvent_new(new_v4(f, fl.uuids + 1), "Outbound", fl.sender_did,
                           fl.recipient_did, "EncryptedPayload",
                           [packed |-> fl.msg_id],
                           fl.correlation_id)
            IN  /\ publish(evt)
                /\ flow' = [flow EXCEPT ![f] =
                       calling(pushed(fl, evt), "forward_message", "forward")]
       ELSE /\ flow' = [flow EXCEPT ![f] =
                  failed(returned(@, "Err"), <<"pack_encrypted failed", "e">>, "send_message")]
            /\ UNCHANGED <<bus, published>>
    /\ UNCHANGED <<rx, out, resets>>

\* Step 3: forward_message returned
\* (mutant: the EncryptedForward record is published before the result of
\* forward_message is looked at)
send_message_forward_publishes_first(f, ok) ==
    /\ flow[f].pc = "forward"
    /\ LET fl == returned(flow[f], IF ok THEN "Ok" ELSE "Err")
           evt == PacketEvent_new(new_v4(f, fl.uuids + 1), "Outbound",
                      fl.sender_did, fl.recipient_mediator_did,
                      "EncryptedForward",
                      [forward |-> fl.msg_id, next |-> fl.recipient_did],
                      fl.correlation_id)
       IN  /\ publish(evt)
           /\ flow' = [flow EXCEPT ![f] =
                  IF ok THEN [pushed(fl, evt) EXCEPT !.pc = "mediator_send"]
                  ELSE failed(pushed(fl, evt),
                              <<"forward_message failed", "e">>,
                              "send_message")]
    /\ UNCHANGED <<rx, out, resets>>

send_message_forward(f, ok) ==
    /\ flow[f].pc = "forward"
    /\ IF ok
       THEN LET fl == returned(flow[f], "Ok")
                evt == PacketEvent_new(new_v4(f, fl.uuids + 1), "Outbound", fl.sender_did,
                           fl.recipient_mediator_did, "EncryptedForward",
                           [forward |-> fl.msg_id, next |-> fl.recipient_did],
                           fl.correlation_id)
            IN  /\ publish(evt)
                /\ flow' = [flow EXCEPT ![f] =
                       [pushed(fl, evt) EXCEPT !.pc = "mediator_send"]]
       ELSE /\ flow' = [flow EXCEPT ![f] =
                  failed(returned(@, "Err"), <<"forward_message failed", "e">>, "send_message")]
            /\ UNCHANGED <<bus, published>>
    /\ UNCHANGED <<rx, out, resets>>

\* Step 4: the MediatorSend record, then atm.send_message is called
send_message_mediator_send(f) ==
    /\ flow[f].pc = "mediator_send"
    /\ LET fl == flow[f]
           evt == PacketEvent_new(new_v4(f, fl.uuids + 1), "Outbound", fl.sender_did,
                      "mediator", "MediatorSend",
                      [msg_id |-> fl.msg_id, size_bytes |-> "len"],
                      fl.correlation_id)
       IN  /\ publish(evt)
           /\ flow' = [flow EXCEPT ![f] =
                  calling(pushed(fl, evt), "send_message", "dispatch")]
    /\ UNCHANGED <<rx, out, resets>>

\* Step 4: atm.send_message returned
\* (mutant: a failed dispatch publishes a MediatorAck record with the error
\* before the flow returns it)
send_message_dispatch_records_error(f, ok) ==
    /\ flow[f].pc = "dispatch"
    /\ LET fl == returned(flow[f], IF ok THEN "Ok" ELSE "Err")
           evt == PacketEvent_new(new_v4(f, fl.uuids + 1), "Inbound",
                      "mediator", fl.sender_did, "MediatorAck",
                      IF ok THEN [status |-> "stored", response |-> "response"]
                      ELSE [error |-> "e"],
                      fl.correlation_id)
       IN  /\ publish(evt)
           /\ flow' = [flow EXCEPT ![f] =
                  IF ok THEN [pushed(fl, evt) EXCEPT !.pc = "message_pickup"]
                  ELSE failed(pushed(fl, evt), <<"send_message failed", "e">>,
                              "send_message")]
    /\ UNCHANGED <<rx, out, resets>>

send_message_dispatch(f, ok) ==
    /\ flow[f].pc = "dispatch"
    /\ IF ok
       THEN LET fl == returned(flow[f], "Ok")
                evt == PacketEvent_new(new_v4(f, fl.uuids + 1), "Inbound", "mediator",
                           fl.sender_did, "MediatorAck",
                           [status |-> "stored", response |-> "response"],
                           fl.correlation_id)
            IN  /\ publish(evt)
                /\ flow' = [flow EXCEPT ![f] =
                       [pushed(fl, evt) EXCEPT !.pc = "message_pickup"]]
       ELSE /\ flow' = [flow EXCEPT ![f] =
                  failed(returned(@, "Err"), <<"send_message failed", "e">>, "send_message")]
            /\ UNCHANGED <<bus, published>>
    /\ UNCHANGED <<rx, out, resets>>

\* Step 5: the MessagePickup record, then live_stream_get is called on the
\* recipient's profile
\* (mutant: the flow waits for whichever message arrives next on the
\* recipient's live stream)
send_message_pickup_next_message(f) ==
    /\ flow[f].pc = "message_pickup"
    /\ LET fl == flow[f]
           evt == PacketEvent_new(new_v4(f, fl.uuids + 1), "Inbound",
                      "mediator", fl.recipient_did, "MessagePickup",
                      [msg_id |-> fl.msg_id, waiting |-> TRUE],
                      fl.correlation_id)
       IN  /\ publish(evt)
           /\ flow' = [flow EXCEPT ![f] =
                  calling([pushed(fl, evt) EXCEPT !.pickup =
                              Some([profile |-> fl.recipient_did,
                                    msg_id |-> None, wait |-> 10,
                                    auto_delete |-> TRUE])],
                          "live_stream_get", "delivery")]
    /\ UNCHANGED <<rx, out, resets>>

send_message_pickup(f) ==
    /\ flow[f].pc = "message_pickup"
    /\ LET fl == flow[f]
           evt == PacketEvent_new(new_v4(f, fl.uuids + 1), "Inbound", "mediator",
                      fl.recipient_did, "MessagePickup",
                      [msg_id |-> fl.msg_id, waiting |-> TRUE],
                      fl.correlation_id)
       IN  /\ publish(evt)
           /\ flow' = [flow EXCEPT ![f] =
                  calling(live_stream_get(pushed(fl, evt), fl.recipient_did,
                                          fl.msg_id, 10, TRUE),
                          "live_stream_get", "delivery")]
    /\ UNCHANGED <<rx, out, resets>>

\* the three results of live_stream_get
PickupOutcomes == {"Some", "None", "Err"}

\* Step 5: live_stream_get returned Ok(Some(_)), Ok(None) or Err(e)
\* (mutant: a pickup error is returned to the caller like the error of a
\* mandatory call)
send_message_delivery_strict(f, outcome) ==
    /\ flow[f].pc = "delivery"
    /\ IF outcome = "Err"
       THEN /\ flow' = [flow EXCEPT ![f] =
                  failed(returned(@, "Err"), <<"live_stream_get failed", "e">>,
                         "send_message")]
            /\ UNCHANGED <<bus, published>>
       ELSE LET fl == returned(flow[f], outcome)
                evt == PacketEvent_new(new_v4(f, fl.uuids + 1), "Inbound",
                           IF outcome = "Some" THEN fl.sender_did
                           ELSE "mediator",
                           fl.recipient_did, "MessageDelivery",
                           IF outcome = "Some" THEN [id |-> "decrypted_msg"]
                           ELSE [status |-> "timeout", msg_id |-> fl.msg_id],
                           fl.correlation_id)
            IN  /\ publish(evt)
                /\ flow' = [flow EXCEPT ![f] =
                       succeeded(pushed(fl, evt), "delivered")]
    /\ UNCHANGED <<rx, out, resets>>

\* (mutant: after a timeout the flow waits on, no record and no return)
send_message_delivery_timeout_pends(f, outcome) ==
    /\ flow[f].pc = "delivery"
    /\ IF outcome = "None"
       THEN /\ flow' = [flow EXCEPT ![f] =
                  [returned(@, outcome) EXCEPT !.pc = "pending"]]
            /\ UNCHANGED <<bus, published>>
       ELSE LET fl == returned(flow[f], outcome)
                evt == PacketEvent_new(new_v4(f, fl.uuids + 1), "Inbound",
                           IF outcome = "Some" THEN fl.sender_did
                           ELSE "mediator",
                           fl.recipient_did, "MessageDelivery",
                           IF outcome = "Some" THEN [id |-> "decrypted_msg"]
                           ELSE [error |-> "e"],
                           fl.correlation_id)
            IN  /\ publish(evt)
                /\ flow' = [flow EXCEPT ![f] =
                       succeeded(pushed(fl, evt), "delivered")]
    /\ UNCHANGED <<rx, out, resets>>

send_message_delivery(f, outcome) ==
    /\ flow[f].pc = "delivery"
    /\ LET fl == returned(flow[f], outcome)
           evt == PacketEvent_new(new_v4(f, fl.uuids + 1), "Inbound",
                      IF outcome = "Some" THEN fl.sender_did ELSE "mediator",
                      fl.recipient_did, "MessageDelivery",
                      CASE outcome = "Some" -> [id |-> "decrypted_msg"]
                        [] outcome = "None" ->
                              [status |-> "timeout", msg_id |-> fl.msg_id]
                        [] outcome = "Err" -> [error |-> "e"],
                      fl.correlation_id)
       IN  /\ publish(evt)
           /\ flow' = [flow EXCEPT ![f] =
                  succeeded(pushed(fl, evt), "delivered")]
    /\ UNCHANGED <<rx, out, resets>>

\* POST /api/ping: api::send_ping, then trust_ping up to its first await
api_send_ping(f, from, to) ==
    /\ flow[f].pc = "idle"
    /\ LET req == [Idle EXCEPT !.kind = "ping", !.from = from, !.to = to]
           correlation_id == new_v4(f, 1)
           r == resolve_ping(from, to)
       IN
       IF ~r.ok
       THEN /\ flow' = [flow EXCEPT ![f] =
                  failed([req EXCEPT !.correlation_id = Some(correlation_id),
                                   !.uuids = 1],
                         r.err, "trust_ping")]
            /\ UNCHANGED <<bus, published>>
       ELSE LET ping_evt == PacketEvent_new(new_v4(f, 2), "Outbound",
                               r.val.sender_did, r.val.target_did,
                               "TrustPing",
                               [type |-> "https://didcomm.org/trust-ping/2.0/ping",
                                from |-> r.val.sender_did,
                                to |-> r.val.target_did,
                                body |-> [response_requested |-> TRUE]],
                               Some(correlation_id))
                fl == [req EXCEPT !.correlation_id = Some(correlation_id),
                                  !.uuids = 1,
                                  !.sender_did = r.val.sender_did,
                                  !.recipient_did = r.val.target_did]
            IN  /\ publish(ping_evt)
                /\ flow' = [flow EXCEPT ![f] =
                       calling(pushed(fl, ping_evt), "send_ping", "send_ping")]
    /\ UNCHANGED <<rx, out, resets>>

\* Step 1: send_ping returned; on Ok the MediatorAck record, then
\* live_stream_get is called on the sender's profile
trust_ping_ack(f, ok) ==
    /\ flow[f].pc = "send_ping"
    /\ IF ok
       THEN LET fl == returned(flow[f], "Ok")
                ack_evt == PacketEvent_new(new_v4(f, fl.uuids + 1), "Inbound", "mediator",
                               fl.sender_did, "MediatorAck",
                               [message_hash |-> "hash",
                                message_id |-> "id"],
                               fl.correlation_id)
            IN  /\ publish(ack_evt)
                /\ flow' = [flow EXCEPT ![f] =
                       calling(live_stream_get(pushed(fl, ack_evt),
                                               fl.sender_did, "id", 10,
                                               FALSE),
                               "live_stream_get", "pong")]
       ELSE /\ flow' = [flow EXCEPT ![f] =
                  failed(returned(@, "Err"), <<"send_ping failed", "e">>, "trust_ping")]
            /\ UNCHANGED <<bus, published>>
    /\ UNCHANGED <<rx, out, resets>>

\* Step 2: live_stream_get returned Ok(Some(_)), Ok(None) or Err(e)
\* (mutant: a pickup error fails the flow)
trust_ping_pong_strict(f, outcome) ==
    /\ flow[f].pc = "pong"
    /\ IF outcome = "Err"
       THEN /\ flow' = [flow EXCEPT ![f] =
                  failed(returned(@, "Err"), <<"live_stream_get failed", "e">>,
                         "trust_ping")]
            /\ UNCHANGED <<bus, published>>
       ELSE LET fl == returned(flow[f], outcome)
                evt == PacketEvent_new(new_v4(f, fl.uuids + 1), "Inbound",
                           fl.recipient_did, fl.sender_did, "TrustPong",
                           CASE outcome = "Some" -> [id |-> "pong"]
                             [] outcome = "None" -> [status |-> "timeout"],
                           fl.correlation_id)
            IN  /\ publish(evt)
                /\ flow' = [flow EXCEPT ![f] =
                       succeeded(pushed(fl, evt), "pong_received")]
    /\ UNCHANGED <<rx, out, resets>>

trust_ping_pong(f, outcome) ==
    /\ flow[f].pc = "pong"
    /\ LET fl == returned(flow[f], outcome)
           evt == PacketEvent_new(new_v4(f, fl.uuids + 1), "Inbound", fl.recipient_did,
                      fl.sender_did, "TrustPong",
                      CASE outcome = "Some" -> [id |-> "pong"]
                        [] outcome = "None" -> [status |-> "timeout"]
                        [] outcome = "Err" -> [error |-> "e"],
                      fl.correlation_id)
       IN  /\ publish(evt)
           /\ flow' = [flow EXCEPT ![f] =
                  succeeded(pushed(fl, evt), "pong_received")]
    /\ UNCHANGED <<rx, out, resets>>

\* the steps a started flow takes, one per return of a collaborator call
\* or per record published between two calls
FlowSteps ==
    \/ \E f \in Flows, ok \in BOOLEAN : send_message_pack(f, ok)
    \/ \E f \in Flows, ok \in BOOLEAN : send_message_forward(f, ok)
    \/ \E f \in Flows : send_message_mediator_send(f)
    \/ \E f \in Flows, ok \in BOOLEAN : send_message_dispatch(f, ok)
    \/ \E f \in Flows : send_message_pickup(f)
    \/ \E f \in Flows, o \in PickupOutcomes : send_message_delivery(f, o)
    \/ \E f \in Flows, ok \in BOOLEAN : trust_ping_ack(f, ok)
    \/ \E f \in Flows, o \in PickupOutcomes : trust_ping_pong(f, o)

\* the observers' steps
StreamSteps ==
    \/ \E s \in Subs : packet_stream(s)
    \/ \E s \in Subs : stream_next(s)
    \/ \E s \in Subs : disconnect(s)

\* Spec: every request a client can make, MaxFlows invocations
Next ==
    \/ \E f \in Flows, from \in Aliases, to \in Aliases, body \in Bodies :
           api_send_message(f, from, to, body)
    \/ \E f \in Flows, from \in Aliases, to \in Aliases :
           api_send_ping(f, from, to)
    \/ FlowSteps
    \/ StreamSteps
    \/ (resets < MaxResets /\ reset_demo)

Spec == Init /\ [][Next]_vars

\* SpecConc: one trigger_send and ConcFlows - 1 trigger_ping requests, all
\* accepted, run concurrently
InitConc == InitWith(ConcFlows, ConcSubs)

NextConc ==
    \/ api_send_message(1, "alice", "Bob", <<"h", "i">>)
    \/ \E f \in Flows \ {1} : api_send_ping(f, "Bob", "alice")
    \/ FlowSteps
    \/ StreamSteps

SpecConc == InitConc /\ [][NextConc]_vars

\* SpecFull: an observer connects and never reads while reset_demo fills the
\* channel to its capacity; then one accepted trigger runs while observers
\* connect, read (FullPolls items at most) and disconnect
InitFull == InitWith(FullFlows, FullSubs)

NextFull ==
    \/ \E s \in Subs : (resets \in {0, Capacity} /\ packet_stream(s))
    \/ (bus.rx_cnt > 0 /\ resets < Capacity /\ reset_demo)
    \/ \E f \in Flows :
           (resets = Capacity
            /\ api_send_message(f, "alice", "bob", <<"h", "i">>))
    \/ \E f \in Flows :
           (resets = Capacity /\ api_send_ping(f, "alice", "mediator"))
    \/ FlowSteps
    \/ \E s \in Subs :
           (resets = Capacity /\ Len(out[s]) < FullPolls /\ stream_next(s))
    \/ \E s \in Subs : (resets = Capacity /\ disconnect(s))

SpecFull == InitFull /\ [][NextFull]_vars

\* SpecBus: the channel under overflow.  reset_demo publishes Capacity +
\* Overrun records; the observers connect early and take few items, so that
\* the channel overwrites records they have not taken.
InitBus == InitWith(0, BusSubs)

NextBus ==
    \/ \E s \in Subs : Len(published) <= SubscribeWindow /\ packet_stream(s)
    \/ \E s \in Subs : Len(out[s]) < MaxPolls /\ stream_next(s)
    \/ (resets < Capacity + Overrun /\ reset_demo)

SpecBus == InitBus /\ [][NextBus]_vars

\* SpecPair: PairFlows accepted triggers of either kind, in sequence or
\* concurrently, no observer
InitPair == InitWith(PairFlows, 0)

NextPair ==
    \/ \E f \in Flows : api_send_message(f, "alice", "bob", <<"h", "i">>)
    \/ \E f \in Flows : api_send_ping(f, "bob", "alice")
    \/ FlowSteps

SpecPair == InitPair /\ [][NextPair]_vars

\* ------------------------------------------------------------------ claims
\* a body that trim() leaves empty: every character is whitespace
IsBlank(b) == \A i \in 1..Len(b) : b[i] = " "

\* the stream item an observer is sent for record e
ItemOf(e) == [event |-> "packet", data |-> to_string(e)]

ItemsOf(records) == [k \in 1..Len(records) |-> ItemOf(records[k])]

\* a is an order-preserving subsequence of b
RECURSIVE IsSubseq(_, _)
IsSubseq(a, b) ==
    IF a = <<>> THEN TRUE
    ELSE IF b = <<>> THEN FALSE
    ELSE IF Head(a) = Head(b) THEN IsSubseq(Tail(a), Tail(b))
    ELSE IsSubseq(a, Tail(b))

NoDuplicates(q) == \A i, j \in 1..Len(q) : i # j => q[i] # q[j]

StepsOf(records) == [k \in 1..Len(records) |-> records[k].step]

\* the records of the history that invocation f constructed
PublishedBy(f) == SelectSeq(published, LAMBDA e : e.id[1] = f)

\* the stream items of observer s that carry a record of invocation f
ReceivedFrom(s, f) == SelectSeq(out[s], LAMBDA i : i.data.id[1] = f)

\* the records published since receiver r was created
PublishedAfter(r, pub) == SubSeq(pub, r.created + 1, Len(pub))

\* the index in the history of the record at channel position p, for an
\* open receiver r and p >= r.start (every record published while a
\* receiver is open is stored)
IndexOf(r, p) == r.created + (p - r.start) + 1

\* the records receiver r can still take, oldest first
Unconsumed(b, r) ==
    LET first == IF r.next < b.tail - 256 THEN b.tail - 256 ELSE r.next
    IN  [k \in 1..(b.tail - first) |-> slot(b, first + k - 1)]

\* the items of the positions receiver r has moved over and not skipped
Delivered(r, pub) ==
    LET passed == [k \in 1..(r.next - r.start) |-> r.start + k - 1]
        taken == SelectSeq(passed, LAMBDA q : q \notin r.skipped)
    IN  [k \in 1..Len(taken) |-> ItemOf(pub[IndexOf(r, taken[k])])]

\* C1: on every subscription the records of one correlation_id arrive in
\* the order their flow published them: what an observer received of a flow
\* is an order-preserving subsequence of what the flow published.
C1_PerFlowOrder ==
    \A s \in Subs, f \in Flows :
        flow[f].correlation_id # None =>
            LET cid == flow[f].correlation_id
                sent == SelectSeq(published,
                                  LAMBDA e : e.correlation_id = cid)
                got == SelectSeq(out[s],
                                 LAMBDA i : i.data.correlation_id = cid[1])
            IN  IsSubseq(got, ItemsOf(sent))

\* an observer that connected in the middle of one flow received records
\* of two concurrent flows, interleaved
C1_Witness ==
    \E s \in Subs :
        /\ \E i, j, k \in 1..Len(out[s]) :
              /\ i < j /\ j < k
              /\ out[s][i].data.correlation_id = out[s][k].data.correlation_id
              /\ out[s][i].data.correlation_id # out[s][j].data.correlation_id
        /\ \E f \in Flows :
              /\ ReceivedFrom(s, f) # <<>>
              /\ Len(ReceivedFrom(s, f)) < Len(PublishedBy(f))

\* C2: an open subscription never receives a record published before it was
\* created; what it received are records published since, each at most
\* once, in publication order, and never more than were published since.
C2_NoReplayAtMostOnce ==
    \A s \in Subs :
        rx[s].state = "open" =>
            /\ IsSubseq(out[s], ItemsOf(PublishedAfter(rx[s], published)))
            /\ Len(out[s]) <= Len(published) - rx[s].created
            /\ NoDuplicates(out[s])
            /\ \A i \in 1..Len(out[s]), k \in 1..rx[s].created :
                  out[s][i] # ItemOf(published[k])

\* an observer created after one record received later records; what it
\* received and can still receive is less than was published since, because
\* the channel overwrote some
C2_Witness ==
    \E s \in Subs :
        /\ rx[s].state = "open" /\ rx[s].created >= 1
        /\ rx[s].skipped # {}
        /\ out[s] # <<>>
        /\ Len(out[s]) + (bus.tail - rx[s].next)
               < Len(published) - rx[s].created

\* the sequence of step kinds a flow has published when it is at pc, or has
\* stopped after returns, whoever is subscribed
ExpectedCount(fl) ==
    CASE fl.pc = "idle" -> 0
      [] fl.pc = "pack" -> 1
      [] fl.pc = "forward" -> 2
      [] fl.pc = "mediator_send" -> 3
      [] fl.pc = "dispatch" -> 4
      [] fl.pc = "message_pickup" -> 5
      [] fl.pc = "delivery" -> 6
      [] fl.pc = "send_ping" -> 1
      [] fl.pc = "pong" -> 2
      [] fl.pc = "done" /\ fl.kind = "send" ->
            CASE fl.returns = <<>> -> 0
              [] fl.returns = <<"Err">> -> 1
              [] fl.returns = <<"Ok", "Err">> -> 2
              [] fl.returns = <<"Ok", "Ok", "Err">> -> 4
              [] OTHER -> 7
      [] fl.pc = "done" /\ fl.kind = "ping" ->
            CASE fl.returns = <<>> -> 0
              [] fl.returns = <<"Err">> -> 1
              [] OTHER -> 3

SendSteps ==
    <<"PlaintextMessage", "EncryptedPayload", "EncryptedForward",
      "MediatorSend", "MediatorAck", "MessagePickup", "MessageDelivery">>

PingSteps == <<"TrustPing", "MediatorAck", "TrustPong">>

\* some step of invocation f
StepOf(f) ==
    \/ \E ok \in BOOLEAN : send_message_pack(f, ok)
    \/ \E ok \in BOOLEAN : send_message_forward(f, ok)
    \/ send_message_mediator_send(f)
    \/ \E ok \in BOOLEAN : send_message_dispatch(f, ok)
    \/ send_message_pickup(f)
    \/ \E o \in PickupOutcomes : send_message_delivery(f, o)
    \/ \E ok \in BOOLEAN : trust_ping_ack(f, ok)
    \/ \E o \in PickupOutcomes : trust_ping_pong(f, o)

\* C3: publishing never blocks and never fails a flow.  Whatever the number
\* of subscribers, however full the channel and whatever send returned, a
\* started flow can always take
\* its next step, the records it has published and kept are those its pc and
\* the returns of its collaborator calls determine, and it ends in an error
\* only when it stopped before its last record.
C3_PublishNeverBlocksOrFails ==
    \A f \in Flows :
        LET fl == flow[f]
            steps == IF fl.kind = "ping" THEN PingSteps ELSE SendSteps
        IN  /\ fl.pc \notin {"idle", "done"} => ENABLED StepOf(f)
            /\ StepsOf(fl.events) = SubSeq(steps, 1, ExpectedCount(fl))
            /\ PublishedBy(f) = fl.events
            /\ (fl.pc = "done" /\ fl.result # None) =>
                  (fl.result[1].ok <=> ExpectedCount(fl) = Len(steps))

\* a send-message flow completed although one of its sends overran a
\* subscriber whose buffer was full, another returned Err (no subscriber)
\* and another was delivered to a subscriber
C3_Witness ==
    \E f \in Flows, s \in Subs :
        /\ flow[f].kind = "send" /\ flow[f].pc = "done"
        /\ flow[f].result[1].ok
        /\ flow[f].overruns > 0
        /\ flow[f].send_errs > 0
        /\ ReceivedFrom(s, f) # <<>>

\* C4: a subscription holds at most 256 unconsumed records.  A publish to a
\* subscription that holds 256 drops its oldest unconsumed record and adds
\* the new one; a subscription that holds fewer keeps all it held and adds
\* the new one.
C4_DropOldest ==
    [][\A s \in Subs :
          /\ rx'[s].state = "open" => Len(Unconsumed(bus', rx'[s])) <= 256
          /\ (published' # published /\ rx[s].state = "open") =>
                LET u == Unconsumed(bus, rx[s])
                    evt == published'[Len(published')]
                IN  Unconsumed(bus', rx'[s]) =
                        IF Len(u) = 256 THEN Append(Tail(u), evt)
                        ELSE Append(u, evt)]_vars

\* one subscription has lost its oldest records to the overflow while
\* another, which holds fewer than 256, has lost none
C4_Witness ==
    \E s, t \in Subs :
        /\ s # t /\ rx[s].state = "open" /\ rx[t].state = "open"
        /\ bus.tail - rx[s].next > 256
        /\ bus.tail - rx[t].next < 256
        /\ rx[t].skipped = {} /\ out[t] # <<>>

\* the stream of receiver r has moved past the i-th published record
Passed(r, i) == r.created < i /\ i <= r.created + (r.next - r.start)

\* C5 as stated: two open subscriptions have both received every record
\* published after their creation that their streams have moved past.
C5_Original ==
    \A a, b \in Subs :
        (a # b /\ rx[a].state = "open" /\ rx[b].state = "open") =>
            \A i \in 1..Len(published) :
                (Passed(rx[a], i) /\ Passed(rx[b], i)) =>
                    /\ \E k \in 1..Len(out[a]) :
                          out[a][k] = ItemOf(published[i])
                    /\ \E k \in 1..Len(out[b]) :
                          out[b][k] = ItemOf(published[i])

\* C5 amended: an open subscription has received every record published
\* after its creation that its stream has moved past, except the records
\* the channel had overwritten before it took them; and a step in which one
\* subscription consumes changes neither what another has received nor what
\* it can still receive.
C5_Amended ==
    [][/\ \A a \in Subs :
            rx'[a].state = "open" =>
               \A i \in 1..Len(published') :
                  Passed(rx'[a], i) =>
                     \/ \E k \in 1..Len(out'[a]) :
                           out'[a][k] = ItemOf(published'[i])
                     \/ \E q \in rx'[a].skipped :
                           /\ IndexOf(rx'[a], q) = i
                           /\ q < bus'.tail - 256
       /\ \A a, b \in Subs :
            (a # b /\ rx[a].state = "open" /\ rx'[a].state = "open"
                   /\ rx'[b] # rx[b] /\ published' = published) =>
               /\ out'[a] = out[a]
               /\ Unconsumed(bus', rx'[a]) = Unconsumed(bus, rx[a])]_vars

\* of two open subscriptions one fell behind and lost records, the other
\* did not, and both have received records
C5_Witness ==
    \E a, b \in Subs :
        /\ a # b /\ rx[a].state = "open" /\ rx[b].state = "open"
        /\ rx[a].skipped # {} /\ rx[b].skipped = {}
        /\ out[a] # <<>> /\ out[b] # <<>>

\* C6: the poll that finds the receiver lagged yields no item, leaves the
\* stream open and moves the cursor to the oldest record still held; only
\* overwritten records are ever skipped, and every other record the stream
\* has moved past was yielded as a "packet" item, in order.
C6_LagSwallowed ==
    [][\A s \in Subs :
          /\ (rx[s].state = "open" /\ rx'[s].skipped # rx[s].skipped) =>
                /\ out'[s] = out[s]
                /\ rx'[s].state = "open"
                /\ rx'[s].next = bus.tail - 256
                /\ rx'[s].next < bus'.tail
          /\ rx'[s].state = "open" =>
                /\ \A p \in rx'[s].skipped : p < bus'.tail - 256
                /\ out'[s] = Delivered(rx'[s], published')
                /\ \A k \in 1..Len(out'[s]) : out'[s][k].event = "packet"]_vars

\* after a lag the stream yielded the oldest record the channel still held
C6_Witness ==
    \E s \in Subs :
        /\ rx[s].state = "open" /\ rx[s].skipped # {}
        /\ out[s] # <<>>
        /\ \E q \in rx[s].skipped :
              /\ \A q2 \in rx[s].skipped : q2 <= q
              /\ out[s][Len(out[s])] =
                     ItemOf(published[IndexOf(rx[s], q + 1)])

\* the aliases of the requests that name the two parties
IsAlice(a) == a = "alice"
IsBob(a) == a \in {"bob", "Bob"}
IsParty(a) == IsAlice(a) \/ IsBob(a)

\* C7 as stated: a send-message flow from alice to bob with a non-empty body
\* whose collaborator calls all succeed publishes exactly 6 records and the
\* response reports events_count = 6.
C7_Original ==
    \A f \in Flows :
        (/\ flow[f].kind = "send" /\ flow[f].pc = "done"
         /\ IsAlice(flow[f].from) /\ IsBob(flow[f].to)
         /\ flow[f].returns = <<"Ok", "Ok", "Ok", "Some">>) =>
            /\ StepsOf(PublishedBy(f)) =
                   <<"PlaintextMessage", "EncryptedPayload",
                     "EncryptedForward", "MediatorSend", "MediatorAck",
                     "MessageDelivery">>
            /\ flow[f].response[1].status = 200
            /\ flow[f].response[1].body.events_count = 6

\* C7 amended: such a flow publishes exactly 7 records, all with the same
\* non-empty correlation_id: PlaintextMessage, EncryptedPayload,
\* EncryptedForward, MediatorSend, MediatorAck, MessagePickup,
\* MessageDelivery; the response is a success reporting events_count = 7.
C7_SevenRecords ==
    \A f \in Flows :
        (/\ flow[f].kind = "send" /\ flow[f].pc = "done"
         /\ IsAlice(flow[f].from) /\ IsBob(flow[f].to)
         /\ flow[f].returns = <<"Ok", "Ok", "Ok", "Some">>) =>
            /\ StepsOf(PublishedBy(f)) =
                   <<"PlaintextMessage", "EncryptedPayload",
                     "EncryptedForward", "MediatorSend", "MediatorAck",
                     "MessagePickup", "MessageDelivery">>
            /\ \A k \in 1..Len(PublishedBy(f)) :
                  /\ PublishedBy(f)[k].correlation_id # None
                  /\ PublishedBy(f)[k].correlation_id =
                         PublishedBy(f)[1].correlation_id
            /\ flow[f].result[1].ok
            /\ flow[f].response[1].status = 200
            /\ flow[f].response[1].body.events_count = 7

\* a send from alice to bob with body "hi" completed with every call
\* succeeding
C7_Witness ==
    \E f \in Flows :
        /\ flow[f].kind = "send" /\ flow[f].pc = "done"
        /\ flow[f].from = "alice" /\ flow[f].to = "bob"
        /\ flow[f].body = <<"h", "i">>
        /\ flow[f].returns = <<"Ok", "Ok", "Ok", "Some">>

\* C8: once send_ping has succeeded the trust-ping flow returns success with
\* exactly the records TrustPing, MediatorAck, TrustPong, whether the pong
\* wait returned a pong, nothing (timeout) or an error; on a timeout the
\* TrustPong record carries {"status":"timeout"}; the response is a 200.
C8_PongOutcomesSucceed ==
    \A f \in Flows :
        (/\ flow[f].kind = "ping" /\ Len(flow[f].returns) >= 1
         /\ flow[f].returns[1] = "Ok") =>
            /\ flow[f].pc \in {"pong", "done"}
            /\ flow[f].pc = "pong" => Len(flow[f].returns) = 1
            /\ flow[f].pc = "done" =>
                  /\ Len(flow[f].returns) = 2
                  /\ flow[f].returns[2] \in {"Some", "None", "Err"}
                  /\ flow[f].result[1].ok
                  /\ StepsOf(flow[f].result[1].val) =
                         <<"TrustPing", "MediatorAck", "TrustPong">>
                  /\ StepsOf(PublishedBy(f)) =
                         <<"TrustPing", "MediatorAck", "TrustPong">>
                  /\ flow[f].response[1].status = 200
                  /\ flow[f].returns[2] = "None" =>
                        flow[f].result[1].val[3].raw_json =
                            [status |-> "timeout"]

\* a trust-ping whose pong did not arrive within the timeout completed
C8_Witness ==
    \E f \in Flows :
        /\ flow[f].kind = "ping" /\ flow[f].pc = "done"
        /\ flow[f].returns = <<"Ok", "None">>

\* the request of invocation f names an alias its flow does not know
UnknownAlias(fl) ==
    \/ fl.kind = "send" /\ ~IsBlank(fl.body)
                        /\ (~IsParty(fl.from) \/ ~IsParty(fl.to))
    \/ fl.kind = "ping" /\ (~IsParty(fl.from)
                            \/ (~IsParty(fl.to) /\ fl.to # "mediator"))

\* C9: a flow invoked with an unknown sender or recipient alias returns an
\* error, has published no record and has called no collaborator.
C9_UnknownAliasAborts ==
    \A f \in Flows :
        UnknownAlias(flow[f]) =>
            /\ flow[f].pc = "done"
            /\ flow[f].result # None /\ ~flow[f].result[1].ok
            /\ flow[f].events = <<>>
            /\ flow[f].calls = <<>>
            /\ PublishedBy(f) = <<>>
            /\ \A s \in Subs : ReceivedFrom(s, f) = <<>>

\* both flows rejected an unknown alias while an observer was connected
C9_Witness ==
    \E f \in Flows, s \in Subs :
        /\ rx[s].state = "open"
        /\ flow[f].pc = "done"
        /\ \/ flow[f].kind = "send" /\ flow[f].from = "alice"
                                    /\ flow[f].to = "carol"
           \/ flow[f].kind = "ping" /\ flow[f].from = "carol"

\* C10: a trigger_send whose body is empty or only whitespace is answered
\* 400 before the flow starts: the flow has no result, no record of the
\* invocation is published, no collaborator call is made and no observer
\* receives a record of it.
C10_BlankBodyRejected ==
    \A f \in Flows :
        (flow[f].kind = "send" /\ IsBlank(flow[f].body)) =>
            /\ flow[f].pc = "done"
            /\ flow[f].response # None
            /\ flow[f].response[1].status = 400
            /\ flow[f].result = None
            /\ flow[f].events = <<>>
            /\ flow[f].calls = <<>>
            /\ flow[f].uuids = 0
            /\ PublishedBy(f) = <<>>
            /\ \A s \in Subs : ReceivedFrom(s, f) = <<>>

\* a whitespace-only body was rejected while an observer was connected
C10_Witness ==
    \E f \in Flows :
        /\ flow[f].kind = "send" /\ flow[f].body = <<" ">>
        /\ flow[f].pc = "done"
        /\ \E s \in Subs : rx[s].state = "open"

\* the request of invocation f fails validation: a blank body or an alias
\* its flow does not know
ValidationError(fl) ==
    \/ fl.kind = "send" /\ IsBlank(fl.body)
    \/ UnknownAlias(fl)

\* C11: every validation error of a trigger (an unknown alias in
\* trigger_send or trigger_ping, an empty body in trigger_send) is answered
\* with a client-fault status (4xx), not a server-fault status (5xx).
C11_ValidationIsClientFault ==
    \A f \in Flows :
        (ValidationError(flow[f]) /\ flow[f].pc = "done") =>
            /\ flow[f].response # None
            /\ flow[f].response[1].status >= 400
            /\ flow[f].response[1].status < 500

\* invocation fl has stopped because a mandatory collaborator call returned
\* an error: pack_encrypted, forward_message or send_message in the
\* send-message flow, send_ping in the trust-ping flow
MandatoryFailed(fl) ==
    /\ fl.pc = "done"
    /\ \/ fl.kind = "send" /\ fl.returns \in {<<"Err">>, <<"Ok", "Err">>,
                                             <<"Ok", "Ok", "Err">>}
       \/ fl.kind = "ping" /\ fl.returns = <<"Err">>

\* the records of the history that carry correlation id cid
WithCorrelation(pub, cid) == SelectSeq(pub, LAMBDA e : e.correlation_id = cid)

IsPrefix(a, b) == Len(a) <= Len(b) /\ a = SubSeq(b, 1, Len(a))

\* C12: the step in which a mandatory collaborator call fails ends the flow
\* with an error at once, without publishing, without a further call and
\* without touching the channel or what the observers hold; afterwards no
\* record with the flow's correlation_id is published, and what an open
\* observer has received is never taken back.
C12_MandatoryFailureAborts ==
    [][/\ \A f \in Flows :
            /\ (flow[f].pc \notin {"idle", "done"}
                /\ MandatoryFailed(flow'[f])) =>
                  /\ ~flow'[f].result[1].ok
                  /\ flow'[f].events = flow[f].events
                  /\ flow'[f].calls = flow[f].calls
                  /\ published' = published
                  /\ bus' = bus /\ rx' = rx /\ out' = out
            /\ MandatoryFailed(flow[f]) =>
                  /\ flow'[f] = flow[f]
                  /\ WithCorrelation(published', flow[f].correlation_id)
                        = WithCorrelation(published, flow[f].correlation_id)
       /\ \A s \in Subs :
            (rx[s].state = "open" /\ rx'[s].state = "open") =>
                IsPrefix(out[s], out'[s])]_vars

\* the dispatch to the mediator failed after an observer had received the
\* four records the flow published before it, and the observer then
\* received a later record (the reset record)
C12_Witness ==
    \E f \in Flows, s \in Subs :
        /\ flow[f].kind = "send" /\ MandatoryFailed(flow[f])
        /\ flow[f].returns = <<"Ok", "Ok", "Err">>
        /\ rx[s].state = "open"
        /\ Len(ReceivedFrom(s, f)) = 4
        /\ Len(out[s]) = 5

\* the collaborator call whose failure stopped invocation fl
FailedCall(fl) == fl.calls[Len(fl.calls)]

\* C13: a collaborator failure inside trigger_send or trigger_ping is
\* answered with a server-fault status and a step name that tells the
\* failures of pack_encrypted, forward_message, send_message and send_ping
\* apart: two invocations stopped by different calls report different steps.
C13_StepNamesTheFailedCall ==
    \A f \in Flows :
        MandatoryFailed(flow[f]) =>
            /\ flow[f].response[1].status >= 500
            /\ flow[f].response[1].step # None
            /\ \A g \in Flows :
                  (MandatoryFailed(flow[g])
                   /\ FailedCall(flow[g]) # FailedCall(flow[f])) =>
                      flow[g].response[1].step # flow[f].response[1].step

\* C14: each trigger_reset publishes exactly one record, with no
\* correlation_id, step PlaintextMessage and payload {"action":"reset"},
\* into the channel the flows publish into, and every observer open at that
\* moment then holds it as its newest unconsumed record.
C14_ResetRecord ==
    [][/\ Len(WithCorrelation(published, None)) = resets
       /\ resets' # resets =>
            /\ resets' = resets + 1
            /\ Len(published') = Len(published) + 1
            /\ IsPrefix(published, published')
            /\ flow' = flow
            /\ LET evt == published'[Len(published')]
               IN  /\ evt.correlation_id = None
                   /\ evt.step = "PlaintextMessage"
                   /\ evt.raw_json = [action |-> "reset"]
                   /\ \A s \in Subs :
                         rx[s].state = "open" =>
                            LET u == Unconsumed(bus', rx'[s])
                            IN  u # <<>> /\ u[Len(u)] = evt]_vars

\* two observers have both been sent the same reset record
C14_Witness ==
    \E a, b \in Subs :
        /\ a # b /\ rx[a].state = "open" /\ rx[b].state = "open"
        /\ out[a] # <<>> /\ out[b] # <<>>
        /\ out[a][1] = out[b][1]
        /\ out[a][1].event = "packet"
        /\ out[a][1].data.correlation_id = None
        /\ out[a][1].data.step = "plaintext_message"
        /\ out[a][1].data.raw_json = [action |-> "reset"]

\* the label and the colour the source assigns to each step kind (the
\* circled digit of a label is written "(n)")
FixedLabel ==
    [PlaintextMessage |-> "(1) Plaintext Message",
     SignedEnvelope   |-> "(2) Signed Envelope",
     EncryptedPayload |-> "(3) Encrypted Payload",
     EncryptedForward |-> "(4) Forward Envelope",
     MediatorSend     |-> "(5) Mediator Send",
     MediatorAck      |-> "(5) Mediator ACK",
     TrustPing        |-> "(1) Trust Ping",
     TrustPong        |-> "(2) Trust Pong",
     MessagePickup    |-> "(6) Message Pickup",
     MessageDelivery  |-> "(6) Message Delivery"]

FixedColor ==
    [PlaintextMessage |-> "blue", SignedEnvelope |-> "yellow",
     EncryptedPayload |-> "red", EncryptedForward |-> "red",
     MediatorSend |-> "orange", MediatorAck |-> "green",
     TrustPing |-> "purple", TrustPong |-> "purple",
     MessagePickup |-> "green", MessageDelivery |-> "green"]

\* C15: every record published, by either flow or by reset, has the label
\* and the colour fixed for its step kind, so two published records of the
\* same step agree on both whatever their payload, endpoints or publisher;
\* the items sent to observers carry the same label and colour.
C15_LabelColorByStep ==
    /\ \A i \in 1..Len(published) :
          /\ published[i].step \in DOMAIN FixedLabel
          /\ published[i].label = FixedLabel[published[i].step]
          /\ published[i].color = FixedColor[published[i].step]
          /\ \A j \in 1..Len(published) :
                published[j].step = published[i].step =>
                    /\ published[j].label = published[i].label
                    /\ published[j].color = published[i].color
    /\ \A s \in Subs : \A k \in 1..Len(out[s]) :
          \E i \in 1..Len(published) :
              /\ out[s][k].data.id = published[i].id
              /\ out[s][k].data.label = published[i].label
              /\ out[s][k].data.color = published[i].color

\* a reset record and a flow's first record, both of step PlaintextMessage,
\* with different payloads and endpoints, were published and sent to an
\* observer
C15_Witness ==
    \E s \in Subs, i, j \in 1..Len(published) :
        /\ published[i].step = "PlaintextMessage"
        /\ published[j].step = "PlaintextMessage"
        /\ published[i].from = "system" /\ published[j].from # "system"
        /\ published[i].raw_json # published[j].raw_json
        /\ Len(out[s]) >= 2
        /\ {out[s][1].data.id, out[s][2].data.id}
               = {published[i].id, published[j].id}

\* C16: in the send-message flow, once the dispatch to the mediator has
\* succeeded, a pickup timeout (Ok(None)) and a pickup error (Err) end the
\* flow like a delivery does: its last record is a MessageDelivery record
\* carrying {"status":"timeout"} or {"error": ..}, the flow returns Ok with
\* every record it published, and the caller is answered 200.
C16_SoftPickupOutcomes ==
    \A f \in Flows :
        (/\ flow[f].kind = "send" /\ Len(flow[f].returns) >= 3
         /\ SubSeq(flow[f].returns, 1, 3) = <<"Ok", "Ok", "Ok">>) =>
            /\ flow[f].pc \in {"message_pickup", "delivery", "done"}
            /\ flow[f].pc # "done" => flow[f].result = None
            /\ flow[f].pc = "done" =>
                  LET last == flow[f].events[Len(flow[f].events)]
                  IN  /\ Len(flow[f].returns) = 4
                      /\ flow[f].result # None /\ flow[f].result[1].ok
                      /\ flow[f].result[1].val = flow[f].events
                      /\ PublishedBy(f) = flow[f].events
                      /\ Len(flow[f].events) = 7
                      /\ last.step = "MessageDelivery"
                      /\ flow[f].returns[4] = "None" =>
                            /\ "status" \in DOMAIN last.raw_json
                            /\ last.raw_json.status = "timeout"
                      /\ flow[f].returns[4] = "Err" =>
                            "error" \in DOMAIN last.raw_json
                      /\ flow[f].response[1].status = 200
                      /\ flow[f].response[1].body.events_count = 7

\* a send-message flow whose pickup reported an error completed, and an
\* observer was sent its MessageDelivery record
C16_Witness ==
    \E f \in Flows, s \in Subs :
        /\ flow[f].kind = "send" /\ flow[f].pc = "done"
        /\ flow[f].returns = <<"Ok", "Ok", "Ok", "Err">>
        /\ out[s] # <<>>
        /\ out[s][Len(out[s])].data.step = "message_delivery"
        /\ out[s][Len(out[s])].data.raw_json = [error |-> "e"]

\* C17 as stated: a send-message flow that reached MessageDelivery made no
\* live-pickup wait on the recipient's profile: MessageDelivery follows
\* MediatorAck at once and nothing was taken from the recipient's live
\* stream.
C17_Original ==
    \A f \in Flows :
        (/\ flow[f].kind = "send" /\ flow[f].pc = "done"
         /\ flow[f].result # None /\ flow[f].result[1].ok) =>
            /\ flow[f].pickup = None
            /\ \A k \in 1..Len(flow[f].calls) :
                  flow[f].calls[k] # "live_stream_get"
            /\ \A k \in 2..Len(flow[f].events) :
                  flow[f].events[k].step = "MessageDelivery" =>
                      flow[f].events[k - 1].step = "MediatorAck"
            /\ Len(flow[f].returns) = 3

\* C17 amended: the send-message flow never waits for whichever message
\* arrives next.  After the mediator acknowledged the dispatch it publishes
\* MessagePickup and makes one live_stream_get call on the recipient's
\* profile, for the id of the message it sent, bounded by a 10 s timeout;
\* when that call returns (message, timeout or error) it publishes
\* MessageDelivery and returns.
C17_TargetedBoundedPickup ==
    \A f \in Flows :
        flow[f].kind = "send" =>
            /\ flow[f].pickup # None <=>
                  flow[f].pc \in {"delivery"} \/
                  (flow[f].pc = "done" /\ Len(flow[f].returns) = 4)
            /\ flow[f].pickup # None =>
                  /\ flow[f].pickup[1].profile = flow[f].recipient_did
                  /\ flow[f].pickup[1].msg_id = Some(flow[f].msg_id)
                  /\ flow[f].pickup[1].wait = 10
                  /\ flow[f].calls = <<"pack_encrypted", "forward_message",
                                       "send_message", "live_stream_get">>
                  /\ StepsOf(flow[f].events)[5] = "MediatorAck"
                  /\ StepsOf(flow[f].events)[6] = "MessagePickup"
            /\ (flow[f].pc = "done" /\ flow[f].result # None
                /\ flow[f].result[1].ok) =>
                  /\ flow[f].pickup # None
                  /\ StepsOf(flow[f].events)[7] = "MessageDelivery"
                  /\ Len(flow[f].events) = 7

\* a send-message flow took its own message from the recipient's live
\* stream and completed
C17_Witness ==
    \E f \in Flows :
        /\ flow[f].kind = "send" /\ flow[f].pc = "done"
        /\ flow[f].returns = <<"Ok", "Ok", "Ok", "Some">>
        /\ flow[f].pickup # None
        /\ flow[f].pickup[1].auto_delete
        /\ flow[f].events[7].raw_json = [id |-> "decrypted_msg"]

\* C18: the records one invocation published all carry that invocation's
\* non-empty correlation_id; records of two invocations never share a
\* correlation_id, whether the invocations overlap or follow one another
\* and whichever flows they run; the correlation_id of a success response
\* is the one on the invocation's records.
C18_CorrelationPerInvocation ==
    /\ \A f \in Flows : \A k \in 1..Len(PublishedBy(f)) :
          /\ PublishedBy(f)[k].correlation_id # None
          /\ PublishedBy(f)[k].correlation_id = flow[f].correlation_id
    /\ \A i, j \in 1..Len(published) :
          (/\ published[i].correlation_id # None
           /\ published[i].correlation_id = published[j].correlation_id) =>
              published[i].id[1] = published[j].id[1]
    /\ \A f, g \in Flows :
          (f # g /\ flow[f].correlation_id # None) =>
              flow[f].correlation_id # flow[g].correlation_id
    /\ \A f \in Flows :
          (flow[f].pc = "done" /\ flow[f].result # None
           /\ flow[f].result[1].ok) =>
              /\ flow[f].response[1].status = 200
              /\ flow[f].response[1].body.correlation_id # None
              /\ \A k \in 1..Len(PublishedBy(f)) :
                    PublishedBy(f)[k].correlation_id =
                        flow[f].response[1].body.correlation_id

\* two send-message invocations ran concurrently (their records are
\* interleaved) and both completed
C18_Witness ==
    \E f, g \in Flows :
        /\ f # g
        /\ flow[f].kind = "send" /\ flow[g].kind = "send"
        /\ flow[f].pc = "done" /\ flow[f].result[1].ok
        /\ flow[g].pc = "done" /\ flow[g].result[1].ok
        /\ \E i, j, k \in 1..Len(published) :
              /\ i < j /\ j < k
              /\ published[i].id[1] = f /\ published[j].id[1] = g
              /\ published[k].id[1] = f

\* C19: the step in which an observer disconnects changes no flow, no
\* published record, nothing the channel holds and nothing another observer
\* has received or can still receive.  Around it every flow in flight can
\* take its next step, the records each flow has published are those its
\* pc and the returns of its collaborator calls determine, and every record
\* published reaches each observer that is still open.
C19_DisconnectFrame ==
    [][/\ \A s \in Subs :
            (rx[s].state = "open" /\ rx'[s].state = "closed") =>
               /\ flow' = flow
               /\ published' = published
               /\ bus'.tail = bus.tail /\ bus'.buf = bus.buf
               /\ \A t \in Subs \ {s} :
                     /\ rx'[t] = rx[t]
                     /\ out'[t] = out[t]
                     /\ rx[t].state = "open" =>
                           Unconsumed(bus', rx'[t]) = Unconsumed(bus, rx[t])
       /\ \A f \in Flows :
            LET fl == flow[f]
                steps == IF fl.kind = "ping" THEN PingSteps ELSE SendSteps
            IN  /\ fl.pc \notin {"idle", "done"} => ENABLED StepOf(f)
                /\ StepsOf(PublishedBy(f)) =
                       SubSeq(steps, 1, ExpectedCount(fl))
       /\ published' # published =>
            \A t \in Subs :
               (rx[t].state = "open" /\ rx'[t].state = "open") =>
                  LET u == Unconsumed(bus', rx'[t])
                  IN  u # <<>> /\ u[Len(u)] = published'[Len(published')]
      ]_vars

\* an observer that was open when a send-message flow published its first
\* records (it was overrun by them) has disconnected while the flow is still
\* in flight; the other observer, which connected after the flow had
\* started, has been sent a record of it and no send of the flow failed
C19_Witness ==
    \E f \in Flows, s, t \in Subs :
        /\ s # t
        /\ rx[s].state = "closed" /\ rx[t].state = "open"
        /\ rx[t].created > Capacity
        /\ flow[f].kind = "send" /\ flow[f].pc = "delivery"
        /\ flow[f].overruns > 0
        /\ flow[f].send_errs = 0
        /\ ReceivedFrom(t, f) # <<>>

\* the position, among the collaborator calls of its flow, of the call of
\* the stage a record of this step describes (0: the stage makes no call)
StageCall(kind, step) ==
    IF kind = "send"
    THEN CASE step = "PlaintextMessage" -> 0
           [] step = "EncryptedPayload" -> 1
           [] step = "EncryptedForward" -> 2
           [] step \in {"MediatorSend", "MediatorAck"} -> 3
           [] step \in {"MessagePickup", "MessageDelivery"} -> 4
    ELSE CASE step \in {"TrustPing", "MediatorAck"} -> 1
           [] step = "TrustPong" -> 2

\* C20 as stated: every record a flow has published describes a stage whose
\* collaborator call has already returned.
C20_Original ==
    \A f \in Flows : \A k \in 1..Len(PublishedBy(f)) :
        Len(flow[f].returns) >=
            StageCall(flow[f].kind, PublishedBy(f)[k].step)

\* C20 amended: a record that reports the result of a collaborator call
\* (EncryptedPayload, EncryptedForward, MediatorAck, MessageDelivery,
\* TrustPong) is published only in the step in which that call has returned
\* (successfully, for the mandatory calls); a record that announces a stage
\* (PlaintextMessage, MediatorSend, MessagePickup, TrustPing) is published
\* before the stage's call is made: the call is made right after it and has
\* not returned.
C20_ResultAfterCallAnnounceBefore ==
    [][\A f \in Flows :
          flow'[f].events # flow[f].events =>
             LET fl == flow'[f]
                 evt == fl.events[Len(fl.events)]
                 n == StageCall(fl.kind, evt.step)
                 allOk == \A k \in 1..Len(fl.returns) :
                              k <= (IF fl.kind = "send" THEN 3 ELSE 1)
                                  => fl.returns[k] = "Ok"
             IN  /\ fl.events = Append(flow[f].events, evt)
                 /\ published' = Append(published, evt)
                 /\ allOk
                 /\ IF evt.step \in {"PlaintextMessage", "MediatorSend",
                                     "MessagePickup", "TrustPing"}
                    THEN /\ fl.returns = flow[f].returns
                         /\ Len(fl.returns) = n - 1 \/ (n = 0 /\ fl.returns = <<>>)
                         /\ Len(flow[f].calls) = Len(fl.returns)
                         /\ Len(fl.calls) = Len(fl.returns) + 1
                    ELSE /\ Len(fl.returns) = n
                         /\ Len(flow[f].returns) = n - 1
                         /\ Len(flow[f].calls) = n]_vars

\* an observer has been sent the MediatorSend record while the flow is
\* still waiting for the dispatch call to return
C20_Witness ==
    \E f \in Flows, s \in Subs :
        /\ flow[f].kind = "send" /\ flow[f].pc = "dispatch"
        /\ Len(flow[f].returns) = 2 /\ Len(flow[f].calls) = 3
        /\ out[s] # <<>>
        /\ out[s][Len(out[s])].data.step = "mediator_send"
        /\ out[s][Len(out[s])].data.correlation_id =
               flow[f].correlation_id[1]

\* the number of times record e was handed to the bus
TimesPublished(e) == Len(SelectSeq(published, LAMBDA p : p = e))

\* C21: the list a flow returns on success is exactly the sequence of
\* records this invocation published to the bus, in publication order; each
\* of them was published exactly once and appears exactly once in the list,
\* and events_count of the trigger response is the number of records the
\* invocation published.
C21_ReturnedListIsPublished ==
    \A f \in Flows :
        (flow[f].result # None /\ flow[f].result[1].ok) =>
            LET list == flow[f].result[1].val
            IN  /\ list = PublishedBy(f)
                /\ list = WithCorrelation(published, flow[f].correlation_id)
                /\ NoDuplicates(list)
                /\ \A k \in 1..Len(list) : TimesPublished(list[k]) = 1
                /\ flow[f].response[1].body.events_count
                       = Len(PublishedBy(f))

\* two invocations returned success after their records were interleaved
\* on the bus
C21_Witness ==
    \E f, g \in Flows :
        /\ f # g
        /\ flow[f].result # None /\ flow[f].result[1].ok
        /\ flow[g].result # None /\ flow[g].result[1].ok
        /\ \E i, j, k \in 1..Len(published) :
              /\ i < j /\ j < k
              /\ published[i].id[1] = f
              /\ published[j].id[1] = g
              /\ published[k].id[1] = f

\* SpecLive: Spec with the scheduling the flows run under: a collaborator
\* call that was made returns (with Ok or Err, the pickup wait with data,
\* with the timeout or with an error) and the task of a flow that can go on
\* is polled again
Fairness == \A f \in 1..MaxFlows : WF_vars(StepOf(f))

SpecLive == Init /\ [][Next]_vars /\ Fairness

\* the terminal outcome of invocation fl: an error return, or success with
\* the terminal record of its flow as the last record
Terminal(fl) ==
    /\ fl.pc = "done"
    /\ fl.response # None
    /\ fl.result # None =>
          \/ ~fl.result[1].ok
          \/ /\ fl.events # <<>>
             /\ fl.events[Len(fl.events)].step =
                    (IF fl.kind = "send" THEN "MessageDelivery"
                     ELSE "TrustPong")

\* the pickup wait of invocation fl resumed with the timeout
TimedOut(fl) == fl.returns # <<>> /\ fl.returns[Len(fl.returns)] = "None"

\* C22: every flow invocation eventually reaches a terminal outcome
\* (success with a terminal record, or an error return), given that each
\* collaborator call returns and the pickup wait resumes with data, with
\* the timeout or with an error; a timeout of the pickup wait leads to the
\* terminal record and a success return, never to an abort and never to a
\* flow that stays pending.
C22_FlowsTerminate ==
    /\ \A f \in 1..MaxFlows :
          (flow[f].pc # "idle") ~> Terminal(flow[f])
    /\ [](\A f \in Flows :
             TimedOut(flow[f]) =>
                 /\ Terminal(flow[f])
                 /\ flow[f].result # None /\ flow[f].result[1].ok
                 /\ flow[f].response[1].status = 200
                 /\ flow[f].events[Len(flow[f].events)].raw_json.status
                        = "timeout")

\* the pickup wait of a send-message flow timed out while an observer was
\* connected; the flow is done with its seven records
C22_Witness ==
    \E f \in Flows, s \in Subs :
        /\ flow[f].kind = "send"
        /\ TimedOut(flow[f])
        /\ flow[f].pc = "done"
        /\ Len(flow[f].events) = 7
        /\ rx[s].state = "open"

\* the collaborator calls of a flow, in the order its code makes them
CallsOf(kind) ==
    IF kind = "send"
    THEN <<"pack_encrypted", "forward_message", "send_message",
           "live_stream_get">>
    ELSE IF kind = "ping" THEN <<"send_ping", "live_stream_get">>
    ELSE <<>>

\* C23: no collaborator call is retried: within one invocation each of
\* pack_encrypted, forward_message, send_message, send_ping and
\* live_stream_get is made at most once, a call is made only when the one
\* before it has returned, and after any of them has failed the invocation
\* makes no further call.
C23_NoRetry ==
    /\ [](\A f \in Flows :
             LET fl == flow[f]
             IN  /\ NoDuplicates(fl.calls)
                 /\ IsPrefix(fl.calls, CallsOf(fl.kind))
                 /\ Len(fl.returns) <= Len(fl.calls)
                 /\ Len(fl.calls) <= Len(fl.returns) + 1
                 /\ \A k \in 1..Len(fl.returns) :
                       fl.returns[k] = "Err" => Len(fl.calls) = k)
    /\ [][\A f \in Flows :
             /\ IsPrefix(flow[f].calls, flow'[f].calls)
             /\ IsPrefix(flow[f].returns, flow'[f].returns)
             /\ (\E k \in 1..Len(flow[f].returns) :
                    flow[f].returns[k] = "Err")
                    => flow'[f].calls = flow[f].calls]_vars

\* forward_message failed after pack_encrypted had succeeded: the flow
\* stopped with these two calls made, once each
C23_Witness ==
    \E f \in Flows :
        /\ flow[f].pc = "done"
        /\ flow[f].calls = <<"pack_encrypted", "forward_message">>
        /\ flow[f].returns = <<"Ok", "Err">>
        /\ flow[f].result # None /\ ~flow[f].result[1].ok

\* the "status" the handler of a flow puts into its 200 response
FixedStatus(kind) == IF kind = "send" THEN "delivered" ELSE "pong_received"

\* what the pickup wait of a finished flow resumed with
PickupOutcome(fl) == fl.returns[Len(fl.returns)]

\* C24: the trigger response of a flow that returned success carries the
\* fixed status of its flow ("delivered" for the send-message trigger,
\* "pong_received" for the ping trigger), also when the terminal record
\* reports a pickup timeout or a pickup error: the status does not tell the
\* three terminal outcomes apart.
C24_FixedSuccessStatus ==
    \A f \in Flows :
        (flow[f].result # None /\ flow[f].result[1].ok) =>
            LET fl == flow[f]
                last == fl.events[Len(fl.events)]
            IN  /\ PickupOutcome(fl) \in PickupOutcomes
                /\ fl.response[1].status = 200
                /\ fl.response[1].body.status = FixedStatus(fl.kind)
                /\ PickupOutcome(fl) = "None" =>
                       last.raw_json.status = "timeout"
                /\ PickupOutcome(fl) = "Err" =>
                       "error" \in DOMAIN last.raw_json

\* a ping whose pickup wait failed is answered "pong_received", and an
\* observer has been sent its TrustPong record with the error
C24_Witness ==
    \E f \in Flows, s \in Subs :
        /\ flow[f].kind = "ping" /\ flow[f].pc = "done"
        /\ flow[f].result # None /\ flow[f].result[1].ok
        /\ PickupOutcome(flow[f]) = "Err"
        /\ flow[f].response[1].body.status = "pong_received"
        /\ out[s] # <<>>
        /\ out[s][Len(out[s])].data.step = "trust_pong"
        /\ "error" \in DOMAIN out[s][Len(out[s])].data.raw_json

\* SpecAlias: the two triggers side by side, each offered every pair of
\* aliases (the odd invocations are pings, the even ones send a message);
\* no observer
InitAlias == InitWith(AliasFlows, 0)

NextAlias ==
    \/ \E f \in Flows, from \in Aliases, to \in Aliases :
           (f % 2 = 1 /\ api_send_ping(f, from, to))
    \/ \E f \in Flows, from \in Aliases, to \in Aliases :
           (f % 2 = 0 /\ api_send_message(f, from, to, <<"h", "i">>))
    \/ FlowSteps

SpecAlias == InitAlias /\ [][NextAlias]_vars

\* the flow of invocation fl got past its profile resolution
Accepted(fl) == fl.events # <<>> /\ fl.calls # <<>>

\* the flow of invocation fl returned Err from its profile resolution
Rejected(fl) ==
    /\ fl.pc = "done"
    /\ fl.result # None /\ ~fl.result[1].ok
    /\ fl.events = <<>> /\ fl.calls = <<>>

DidOf(a) == IF IsAlice(a) THEN alice_did ELSE bob_did
MediatorOf(a) == IF IsAlice(a) THEN alice_mediator_did ELSE bob_mediator_did
OtherParty(a, b) == (IsAlice(a) /\ IsBob(b)) \/ (IsBob(a) /\ IsAlice(b))

\* C25: the two flows accept different alias pairs.  The trust-ping flow
\* accepts as target only the other named party or "mediator" (resolved to
\* the sender's own mediator) and rejects a ping from a party to itself with
\* zero records published; the send-message flow accepts every pair of the
\* two named parties, a party sending to itself included, and rejects
\* "mediator" as a recipient.
C25_AliasPairs ==
    \A f \in Flows :
        LET fl == flow[f]
        IN  /\ fl.kind = "ping" =>
                  /\ Accepted(fl) <=>
                         /\ IsParty(fl.from)
                         /\ OtherParty(fl.from, fl.to) \/ fl.to = "mediator"
                  /\ ~Accepted(fl) =>
                         Rejected(fl) /\ PublishedBy(f) = <<>>
                  /\ (IsParty(fl.from) /\ IsParty(fl.to)
                      /\ ~OtherParty(fl.from, fl.to)) => Rejected(fl)
                  /\ Accepted(fl) =>
                         /\ fl.sender_did = DidOf(fl.from)
                         /\ fl.recipient_did =
                                (IF fl.to = "mediator"
                                 THEN MediatorOf(fl.from)
                                 ELSE DidOf(fl.to))
            /\ fl.kind = "send" =>
                  /\ Accepted(fl) <=> (IsParty(fl.from) /\ IsParty(fl.to))
                  /\ ~Accepted(fl) =>
                         Rejected(fl) /\ PublishedBy(f) = <<>>
                  /\ fl.to = "mediator" => Rejected(fl)
                  /\ Accepted(fl) =>
                         /\ fl.sender_did = DidOf(fl.from)
                         /\ fl.recipient_did = DidOf(fl.to)
                         /\ fl.recipient_mediator_did = MediatorOf(fl.to)

\* the same pair, a party and itself, was given to both triggers: the ping
\* was rejected with nothing published, the message was sent and its flow
\* succeeded
C25_Witness ==
    \E f, g \in Flows :
        /\ flow[f].kind = "ping" /\ flow[g].kind = "send"
        /\ flow[f].from = flow[g].from /\ flow[f].to = flow[g].to
        /\ IsAlice(flow[f].from) /\ IsAlice(flow[f].to)
        /\ Rejected(flow[f]) /\ PublishedBy(f) = <<>>
        /\ flow[g].result # None /\ flow[g].result[1].ok
        /\ Len(PublishedBy(g)) = 7

\* record e carries no alias
NoAlias(e) == e.from_alias = None /\ e.to_alias = None

\* C26: every record published on the bus, by either flow or by reset, has
\* from_alias and to_alias absent: the records handed to the bus, those the
\* channel holds, those a flow keeps and the items sent to observers carry
\* no alias, and no record is changed after it was published.
C26_NoAliasNoChange ==
    /\ [](/\ \A k \in 1..Len(published) : NoAlias(published[k])
          /\ \A k \in 1..Len(bus.buf) :
                /\ NoAlias(bus.buf[k])
                /\ \E i \in 1..Len(published) : published[i] = bus.buf[k]
          /\ \A f \in Flows :
                \A k \in 1..Len(flow[f].events) : NoAlias(flow[f].events[k])
          /\ \A s \in Subs :
                \A k \in 1..Len(out[s]) :
                    /\ "from_alias" \notin DOMAIN out[s][k].data
                    /\ "to_alias" \notin DOMAIN out[s][k].data)
    /\ [][/\ IsPrefix(published, published')
          /\ \A f \in Flows : IsPrefix(flow[f].events, flow'[f].events)]_vars

\* the records of a finished flow and of a reset were published, and an
\* observer has been sent one of each
C26_Witness ==
    \E f \in Flows, s \in Subs :
        /\ flow[f].pc = "done" /\ flow[f].events # <<>>
        /\ \E k \in 1..Len(published) : published[k].from = "system"
        /\ \E i, j \in 1..Len(out[s]) :
              /\ out[s][i].data.from = "system"
              /\ out[s][j].data.correlation_id # None

====
